---- MODULE Spec2Model ----
(***************************************************************************)
(* A model of scrape.py: the driver main (fetch every slug, collect the    *)
(* records, write the JSON and the CSV file) and fetch_module (one page    *)
(* parsed into one record).                                                *)
(*                                                                         *)
(* A Python str is a sequence of one-character strings, so that strip,     *)
(* split, startswith, replace and re.split are computed character by       *)
(* character.  A Python dict is a sequence of [k, v] entries in insertion  *)
(* order.  None is the string "None" where a state variable holds it.      *)
(***************************************************************************)
EXTENDS Integers, Sequences, FiniteSets, TLC

VARIABLES
    \* main
    slugs,             \* the argument of main
    pc,                \* position in main
    i,                 \* number of slugs the for loop has taken
    resp,              \* the page of the response being parsed
    rec,               \* the record fetch_module returned, before the append
    records,           \* the list records
    trace,             \* what main did so far: requests, sleeps, prints, writes
    jsonFile,          \* ucl_modules_structured.json, a sequence of writes
    csvFile,           \* ucl_modules_structured.csv, a sequence of writes
    \* fetch_module, statement by statement
    soup,              \* the parsed page
    fslug,             \* the argument slug
    fpc,               \* position in fetch_module
    basic,             \* title, the six meta fields and restrictions
    assessment,        \* the dict assessment
    dv,                \* number of assessment divs taken
    state,             \* the section state of the description loop
    outline,           \* the list outline
    raw_aims,          \* the string raw_aims
    learning_methods,  \* the dict learning_methods
    pk,                \* number of paragraphs taken
    record             \* the record returned

mvars == <<slugs, pc, i, resp, rec, records, trace, jsonFile, csvFile>>
fvars == <<soup, fslug, fpc, basic, assessment, dv, state, outline, raw_aims,
           learning_methods, pk, record>>
vars == <<mvars, fvars>>

-----------------------------------------------------------------------------
(* Bounds of the model.                                                    *)

MaxSlugs == 3
MaxParas == 3
MaxDivs == 3
MaxItems == 2

-----------------------------------------------------------------------------
(* String literals of scrape.py.                                           *)

S_ModuleOutline == <<"M","o","d","u","l","e"," ","O","u","t","l","i","n","e",":">>
S_ModuleAims == <<"M","o","d","u","l","e"," ","A","i","m","s",":">>
S_TeachingAndLearningMethods == <<"T","e","a","c","h","i","n","g"," ","a","n","d"," ","L","e","a","r","n","i","n","g"," ","M","e","t","h","o","d","s">>
S_AtTheEnd == <<"A","t"," ","t","h","e"," ","e","n","d">>
S_Restrictions == <<"R","e","s","t","r","i","c","t","i","o","n","s">>
S_MethodsOfAssessment == <<"M","e","t","h","o","d","s"," ","o","f"," ","a","s","s","e","s","s","m","e","n","t">>
S_notes == <<"n","o","t","e","s">>
S_assessment_ == <<"a","s","s","e","s","s","m","e","n","t","_">>
S_BASE_URL == <<"h","t","t","p","s",":","/","/","w","w","w",".","u","c","l",".","a","c",".","u","k","/","m","o","d","u","l","e","-","c","a","t","a","l","o","g","u","e","/","m","o","d","u","l","e","s","/">>
S_sanitized_prefix == <<"u","c","l",":","s","a","n","i","t","i","z","e","d","_">>
M_faculty == <<"u","c","l",":","s","a","n","i","t","i","z","e","d","_","f","a","c","u","l","t","y">>
M_department == <<"u","c","l",":","s","a","n","i","t","i","z","e","d","_","t","e","a","c","h","i","n","g","_","d","e","p","a","r","t","m","e","n","t">>
M_credit == <<"u","c","l",":","s","a","n","i","t","i","z","e","d","_","c","r","e","d","i","t","_","v","a","l","u","e">>
M_level == <<"u","c","l",":","s","a","n","i","t","i","z","e","d","_","l","e","v","e","l">>
M_term == <<"u","c","l",":","s","a","n","i","t","i","z","e","d","_","i","n","t","e","n","d","e","d","_","t","e","a","c","h","i","n","g","_","t","e","r","m">>
M_subject == <<"u","c","l",":","s","a","n","i","t","i","z","e","d","_","s","u","b","j","e","c","t">>
K_slug == <<"s","l","u","g">>
K_url == <<"u","r","l">>
K_title == <<"t","i","t","l","e">>
K_faculty == <<"f","a","c","u","l","t","y">>
K_department == <<"d","e","p","a","r","t","m","e","n","t">>
K_credit_value == <<"c","r","e","d","i","t","_","v","a","l","u","e">>
K_level == <<"l","e","v","e","l">>
K_teaching_term == <<"t","e","a","c","h","i","n","g","_","t","e","r","m">>
K_subject == <<"s","u","b","j","e","c","t">>
K_restrictions == <<"r","e","s","t","r","i","c","t","i","o","n","s">>
K_outline == <<"o","u","t","l","i","n","e">>
K_aims == <<"a","i","m","s">>
K_learning_methods == <<"l","e","a","r","n","i","n","g","_","m","e","t","h","o","d","s">>

-----------------------------------------------------------------------------
(* Python's str and dict operations, as scrape.py uses them.               *)

IsSpace(c) == c \in {" ", "\n", "\t", "\r"}
IsDigit(c) == c \in {"0", "1", "2", "3", "4", "5", "6", "7", "8", "9"}

RECURSIVE LStrip(_)
LStrip(s) == IF s # <<>> /\ IsSpace(Head(s)) THEN LStrip(Tail(s)) ELSE s

RECURSIVE RStrip(_)
RStrip(s) ==
    IF s # <<>> /\ IsSpace(s[Len(s)]) THEN RStrip(SubSeq(s, 1, Len(s) - 1)) ELSE s

\* s.strip()
Strip(s) == RStrip(LStrip(s))

\* s.startswith(p)
StartsWith(s, p) == Len(s) >= Len(p) /\ SubSeq(s, 1, Len(p)) = p

\* the position of the first c in s, 0 when s holds none
Find(s, c) ==
    IF \E n \in 1..Len(s) : s[n] = c
    THEN CHOOSE n \in 1..Len(s) : s[n] = c /\ \A m \in 1..(n - 1) : s[m] # c
    ELSE 0

\* s.split(c, 1): one part when s holds no c, else the parts around the first c
Split1(s, c) ==
    LET n == Find(s, c)
    IN  IF n = 0 THEN <<s>>
        ELSE <<SubSeq(s, 1, n - 1), SubSeq(s, n + 1, Len(s))>>

\* s.replace(a, b) for single characters a, b
Replace(s, a, b) == [n \in 1..Len(s) |-> IF s[n] = a THEN b ELSE s[n]]

\* sep.join(xs)
RECURSIVE Join(_, _)
Join(sep, xs) ==
    IF xs = <<>> THEN <<>>
    ELSE IF Len(xs) = 1 THEN xs[1]
    ELSE xs[1] \o sep \o Join(sep, Tail(xs))

Min(S) == CHOOSE n \in S : \A m \in S : n <= m

\* Where a match of \d+\.\s+ that starts at position n of s ends; 0 when
\* none starts there.  Both repetitions are greedy and neither can give back.
MarkerEnd(s, n) ==
    IF n > Len(s) \/ ~IsDigit(s[n]) THEN 0
    ELSE LET nd  == {m \in n..Len(s) : ~IsDigit(s[m])}
             dot == IF nd = {} THEN Len(s) + 1 ELSE Min(nd)
         IN  IF dot + 1 > Len(s) \/ s[dot] # "." \/ ~IsSpace(s[dot + 1]) THEN 0
             ELSE LET ns == {m \in (dot + 1)..Len(s) : ~IsSpace(s[m])}
                  IN  IF ns = {} THEN Len(s) ELSE Min(ns) - 1

\* re.split(r"\d+\.\s+", s) from position start on
RECURSIVE ReSplitFrom(_, _)
ReSplitFrom(s, start) ==
    LET at == {n \in start..Len(s) : MarkerEnd(s, n) > 0}
    IN  IF at = {} THEN <<SubSeq(s, start, Len(s))>>
        ELSE <<SubSeq(s, start, Min(at) - 1)>>
                 \o ReSplitFrom(s, MarkerEnd(s, Min(at)) + 1)

ReSplit(s) == ReSplitFrom(s, 1)

\* [x.strip() for x in xs]
StripAll(xs) == [n \in 1..Len(xs) |-> Strip(xs[n])]

\* k in d
DictHas(d, k) == \E n \in 1..Len(d) : d[n].k = k

\* d.get(k, default)
DictGet(d, k, default) ==
    IF DictHas(d, k) THEN d[CHOOSE n \in 1..Len(d) : d[n].k = k].v ELSE default

\* d[k] = v: a present key keeps its place, a new key goes last
DictSet(d, k, v) ==
    IF DictHas(d, k)
    THEN [n \in 1..Len(d) |-> IF d[n].k = k THEN [k |-> k, v |-> v] ELSE d[n]]
    ELSE Append(d, [k |-> k, v |-> v])

\* list(d.keys())
DictKeys(d) == [n \in 1..Len(d) |-> d[n].k]

-----------------------------------------------------------------------------
(* BeautifulSoup, as far as scrape.py reads a page.  An element is given   *)
(* by its text nodes, each a raw string.                                   *)

NonEmpty(s) == s # <<>>

\* element.stripped_strings: the text nodes stripped, the empty ones left out
StrippedStrings(strings) == SelectSeq(StripAll(strings), NonEmpty)

\* element.get_text(sep, strip=True)
GetText(strings, sep) == Join(sep, StrippedStrings(strings))

-----------------------------------------------------------------------------
(* A page, as BeautifulSoup hands it to fetch_module:                      *)
(*   h1   the element h1.heading: [present, strings]                       *)
(*   meta the meta elements with a name and a content: [name, content]     *)
(*   dl   the children of dl.dl-inline in document order: [tag, strings,   *)
(*        divs], tag "dt" or "dd", divs the text nodes of each div inside  *)
(*   desc the element div.module-description: [present, ps], ps its        *)
(*        direct-child paragraphs, each a sequence of text nodes [bold, s] *)
(*        (bold: the node lies inside a strong element)                    *)

\* lines 45-46
Title(slug, sp) ==
    IF sp.h1.present THEN GetText(sp.h1.strings, <<>>) ELSE slug

\* lines 48-52: the dict comprehension over the meta elements
RECURSIVE MetaDict(_)
MetaDict(ms) ==
    IF ms = <<>> THEN <<>>
    ELSE LET m    == ms[Len(ms)]
             rest == MetaDict(SubSeq(ms, 1, Len(ms) - 1))
         IN  IF StartsWith(m.name, S_sanitized_prefix)
             THEN DictSet(rest, m.name, m.content)
             ELSE rest

\* None as the value of a field: no str, which holds one-character strings
None == <<"None">>

\* a change of MetaGet: meta.get(key), which gives None for a missing key
MetaGet_NoDefault(meta, key) == DictGet(meta, key, None)

\* meta.get(key, "")
MetaGet(meta, key) == DictGet(meta, key, <<>>)

\* The first dt of the page whose stripped text is label; 0 when there is none.
FindDt(dl, label) ==
    LET hits == {n \in 1..Len(dl) :
                    dl[n].tag = "dt" /\ GetText(dl[n].strings, <<>>) = label}
    IN  IF hits = {} THEN 0 ELSE Min(hits)

\* dt.find_next_sibling("dd"): the position of the next dd, 0 when none follows
FindNextDd(dl, n) ==
    LET dds == {m \in (n + 1)..Len(dl) : dl[m].tag = "dd"}
    IN  IF dds = {} THEN 0 ELSE Min(dds)

\* lines 61-67
Restrictions(sp) ==
    LET dt == FindDt(sp.dl, S_Restrictions)
        dd == IF dt = 0 THEN 0 ELSE FindNextDd(sp.dl, dt)
    IN  IF dd = 0 THEN <<>>
        ELSE Join(<<" ">>, StrippedStrings(sp.dl[dd].strings))

\* lines 71-75: the divs the assessment loop runs over
AssessDivs(sp) ==
    LET dt == FindDt(sp.dl, S_MethodsOfAssessment)
        dd == IF dt = 0 THEN 0 ELSE FindNextDd(sp.dl, dt)
    IN  IF dd = 0 THEN <<>> ELSE sp.dl[dd].divs

\* a change of AssessStep: the weight without the "%" put back
AssessStep_NoPercentSign(a, div) ==
    LET text  == GetText(div, <<" ">>)
        parts == Split1(text, "%")
    IN  IF Len(parts) = 2
        THEN DictSet(a, Strip(parts[2]), Strip(parts[1]))
        ELSE DictSet(a, text, <<>>)

\* lines 76-83: one div of the assessment loop
AssessStep(a, div) ==
    LET text  == GetText(div, <<" ">>)
        parts == Split1(text, "%")
    IN  IF Len(parts) = 2
        THEN DictSet(a, Strip(parts[2]), Strip(parts[1]) \o <<"%">>)
        ELSE DictSet(a, text, <<>>)

RECURSIVE AssessAll(_, _)
AssessAll(a, divs) ==
    IF divs = <<>> THEN a ELSE AssessAll(AssessStep(a, Head(divs)), Tail(divs))

\* lines 91-93
Paras(sp) == IF sp.desc.present THEN sp.desc.ps ELSE <<>>

\* line 97: p.find("strong"), the position of the first bold node, 0 for None
FindStrong(p) ==
    LET b == {n \in 1..Len(p) : p[n].bold}
    IN  IF b = {} THEN 0 ELSE Min(b)

\* line 99
StrongText(p) == GetText(<<p[FindStrong(p)].s>>, <<>>)

\* line 111
ParaText(p) == GetText([n \in 1..Len(p) |-> p[n].s], <<" ">>)

\* lines 100-107
HeadingState(h) ==
    IF h = S_ModuleOutline THEN "outline"
    ELSE IF h = S_ModuleAims THEN "aims"
    ELSE IF StartsWith(h, S_TeachingAndLearningMethods) THEN "methods"
    ELSE "none"

\* line 113
CollectOutline(o, txt) == Append(o, txt)

\* a change of CollectAims: raw_aims += txt, without the newline
CollectAims_NoNewline(raw, txt) == raw \o txt

\* line 115
CollectAims(raw, txt) == raw \o txt \o <<"\n">>

\* lines 117-123
CollectMethods(lm, txt) ==
    IF Find(txt, ":") # 0
    THEN LET parts == Split1(txt, ":")
         IN  DictSet(lm, Strip(parts[1]), Strip(parts[2]))
    ELSE LET d == IF DictHas(lm, S_notes) THEN lm ELSE DictSet(lm, S_notes, <<>>)
         IN  DictSet(d, S_notes, DictGet(d, S_notes, <<>>) \o <<" ">> \o txt)

\* lines 111-123: st holds state, outline, raw_aims and learning_methods
Collect(st, txt) ==
    IF st.state = "outline"
    THEN [st EXCEPT !.outline = CollectOutline(st.outline, txt)]
    ELSE IF st.state = "aims"
    THEN [st EXCEPT !.raw_aims = CollectAims(st.raw_aims, txt)]
    ELSE IF st.state = "methods"
    THEN [st EXCEPT !.learning_methods = CollectMethods(st.learning_methods, txt)]
    ELSE st

\* lines 96-123: the body of the loop over the paragraphs
ParaStep(st, p) ==
    IF FindStrong(p) # 0
    THEN [st EXCEPT !.state = HeadingState(StrongText(p))]
    ELSE Collect(st, ParaText(p))

RECURSIVE ParaAll(_, _)
ParaAll(st, ps) ==
    IF ps = <<>> THEN st ELSE ParaAll(ParaStep(st, Head(ps)), Tail(ps))

\* lines 87-94
DescStart ==
    [state |-> "none", outline |-> <<>>, raw_aims |-> <<>>,
     learning_methods |-> <<>>]

\* line 126
OutlineStr(o) == Strip(Join(<<" ">>, o))

\* line 131: the condition of the list comprehension
KeepAim(a) == Strip(a) # <<>> /\ ~StartsWith(a, S_AtTheEnd)

\* lines 128-132
AimsList(raw) == StripAll(SelectSeq(ReSplit(raw), KeepAim))

\* lines 45-67
Basic(slug, sp) ==
    LET meta == MetaDict(sp.meta)
    IN  [title        |-> Title(slug, sp),
         faculty      |-> MetaGet(meta, M_faculty),
         department   |-> MetaGet(meta, M_department),
         credit       |-> MetaGet(meta, M_credit),
         level        |-> MetaGet(meta, M_level),
         term         |-> MetaGet(meta, M_term),
         subject      |-> MetaGet(meta, M_subject),
         restrictions |-> Restrictions(sp)]

\* line 155
AssessKey(label) == S_assessment_ \o Replace(label, " ", "_")

\* lines 154-156
RECURSIVE Flatten(_, _)
Flatten(r, a) ==
    IF a = <<>> THEN r
    ELSE Flatten(DictSet(r, AssessKey(a[1].k), a[1].v), Tail(a))

\* lines 138-158
Assemble(slug, b, o, raw, lm, a) ==
    Flatten(<<[k |-> K_slug,             v |-> slug],
              [k |-> K_url,              v |-> S_BASE_URL \o slug],
              [k |-> K_title,            v |-> b.title],
              [k |-> K_faculty,          v |-> b.faculty],
              [k |-> K_department,       v |-> b.department],
              [k |-> K_credit_value,     v |-> b.credit],
              [k |-> K_level,            v |-> b.level],
              [k |-> K_teaching_term,    v |-> b.term],
              [k |-> K_subject,          v |-> b.subject],
              [k |-> K_restrictions,     v |-> b.restrictions],
              [k |-> K_outline,          v |-> OutlineStr(o)],
              [k |-> K_aims,             v |-> AimsList(raw)],
              [k |-> K_learning_methods, v |-> lm]>>, a)

\* lines 42-158: fetch_module from the parsed page to the record
FetchModule(slug, sp) ==
    LET st == ParaAll(DescStart, Paras(sp))
    IN  Assemble(slug, Basic(slug, sp), st.outline, st.raw_aims,
                 st.learning_methods, AssessAll(<<>>, AssessDivs(sp)))

-----------------------------------------------------------------------------
(* The inputs the model draws from: slugs, text nodes, paragraphs, divs,   *)
(* meta elements and pages.                                                *)

Slug1 == <<"C","H","E","M","0","0","0","8">>
Slug2 == <<"S","T","A","T","0","0","0","6">>
Slugs == {Slug1, Slug2}

\* paragraphs of div.module-description
P_HOutline ==
    <<[bold |-> TRUE, s |-> <<"M","o","d","u","l","e"," ","O","u","t","l","i","n","e",":">>]>>
P_HAims ==
    <<[bold |-> TRUE, s |-> <<" ","M","o","d","u","l","e"," ","A","i","m","s",":"," ">>]>>
P_HMethods ==
    <<[bold |-> TRUE, s |-> <<"T","e","a","c","h","i","n","g"," ","a","n","d"," ","L","e","a","r","n","i","n","g"," ","M","e","t","h","o","d","s",":">>]>>
P_HOther ==
    <<[bold |-> TRUE, s |-> <<"I","n","d","i","c","a","t","i","v","e"," ","T","o","p","i","c","s",":">>]>>
P_Mixed ==
    <<[bold |-> FALSE, s |-> <<"C","o","v","e","r","s"," ">>],
      [bold |-> TRUE, s |-> <<"k","e","y">>],
      [bold |-> FALSE, s |-> <<" ","i","d","e","a","s",".">>]>>
P_MixedAims ==
    <<[bold |-> FALSE, s |-> <<"S","e","e"," ">>],
      [bold |-> TRUE, s |-> <<"M","o","d","u","l","e"," ","A","i","m","s",":">>],
      [bold |-> FALSE, s |-> <<" ","b","e","l","o","w",".">>]>>
P_Plain ==
    <<[bold |-> FALSE, s |-> <<" ","A","t","o","m","s"," ","a","n","d"," ","b","o","n","d","s","."," ">>]>>
P_Colon ==
    <<[bold |-> FALSE, s |-> <<"L","a","b","s"," ",":"," ","3"," ","h","o","u","r","s",":"," ","w","e","e","k","l","y">>]>>
P_NoColon ==
    <<[bold |-> FALSE, s |-> <<"W","e","e","k","l","y"," ","q","u","i","z">>]>>
ParaPool ==
    {P_HOutline, P_HAims, P_HMethods, P_HOther, P_Mixed, P_MixedAims,
     P_Plain, P_Colon, P_NoColon}

\* the lines of an aims section: numbered items and a closing sentence
T_UnderstandX == <<"U","n","d","e","r","s","t","a","n","d"," ","X",".">>
T_ApplyY == <<"A","p","p","l","y"," ","Y",".">>
ItemTexts == {T_UnderstandX, T_ApplyY}
T_Trailing == <<"A","t"," ","t","h","e"," ","e","n","d",","," ","s","t","u","d","e","n","t","s"," ","w","i","l","l"," ","k","n","o","w"," ","Z",".">>

\* the divs of the dd under Methods of assessment, each by its text nodes
D_Exam80 == <<<<"8","0","%"," ","E","x","a","m">>>>
D_Coursework == <<<<"C","o","u","r","s","e","w","o","r","k">>>>
D_Exam20 == <<<<"2","0","%"," ","E","x","a","m">>>>
D_FinalExam == <<<<" ","5","0","%"," ">>, <<" ","F","i","n","a","l"," ","E","x","a","m"," ">>>>
D_Final_Exam == <<<<"1","0","%"," ","F","i","n","a","l","_","E","x","a","m">>>>
DivPool == {D_Exam80, D_Coursework, D_Exam20, D_FinalExam, D_Final_Exam}

\* meta elements: the six the record reads and one outside the namespace
MetaAll ==
    <<[name |-> M_faculty, content |-> <<"M","A","P","S">>],
      [name |-> M_department, content |-> <<"C","h","e","m","i","s","t","r","y">>],
      [name |-> M_credit, content |-> <<"1","5">>],
      [name |-> M_level, content |-> <<"4">>],
      [name |-> M_term, content |-> <<"T","e","r","m"," ","1">>],
      [name |-> M_subject, content |-> <<"C","H","E","M">>]>>
MetaOther == [name |-> <<"d","e","s","c","r","i","p","t","i","o","n">>, content |-> <<"x">>]

H1Present == [present |-> TRUE, strings |-> <<<<" ","O","r","g","a","n","i","c"," ","C","h","e","m","i","s","t","r","y"," ">>>>]
H1Absent == [present |-> FALSE, strings |-> <<>>]

Dt(s) == [tag |-> "dt", strings |-> <<s>>, divs |-> <<>>]
DtRestrictions == Dt(<<" ","R","e","s","t","r","i","c","t","i","o","n","s"," ">>)
DtAssessment == Dt(S_MethodsOfAssessment)
DtOther == Dt(<<"M","o","d","u","l","e"," ","l","e","a","d","e","r">>)
DdRestrictions == [tag |-> "dd", strings |-> <<<<" ","Y","e","a","r"," ","1"," ">>, <<" ">>, <<"o","n","l","y">>>>, divs |-> <<>>]

SeqsUpTo(S, n) == UNION {[1..m -> S] : m \in 0..n}

RECURSIVE Concat(_)
Concat(xss) == IF xss = <<>> THEN <<>> ELSE Head(xss) \o Concat(Tail(xss))

\* the dd under Methods of assessment: its divs, and all its text nodes
DdAssessment(divs) == [tag |-> "dd", strings |-> Concat(divs), divs |-> divs]

\* dl.dl-inline with a Restrictions pair, with none, with a Restrictions label
\* that no dd follows, and with nothing in it
DlRestr(divs) == <<DtRestrictions, DdRestrictions, DtAssessment, DdAssessment(divs)>>
DlNoLabel(divs) == <<DtOther, DdRestrictions, DtAssessment, DdAssessment(divs)>>
DlNoDd(divs) == <<DtAssessment, DdAssessment(divs), DtRestrictions>>
DlEmpty == <<>>

DescAbsent == [present |-> FALSE, ps |-> <<>>]
Desc(ps) == [present |-> TRUE, ps |-> ps]

Page(h1, meta, dl, desc) == [h1 |-> h1, meta |-> meta, dl |-> dl, desc |-> desc]

\* the meta elements of a page that has those of MetaAll at the positions S
RECURSIVE MetaSel(_, _)
MetaSel(S, n) ==
    IF n > Len(MetaAll) THEN <<>>
    ELSE (IF n \in S THEN <<MetaAll[n]>> ELSE <<>>) \o MetaSel(S, n + 1)

\* the decimal numeral of n
RECURSIVE NumStr(_)
NumStr(n) ==
    LET digit == <<"0", "1", "2", "3", "4", "5", "6", "7", "8", "9">>
    IN  IF n < 10 THEN <<digit[n + 1]>>
        ELSE NumStr(n \div 10) \o <<digit[(n % 10) + 1]>>

\* the paragraph "<n>. <text>"
ItemPara(n, text) == <<[bold |-> FALSE, s |-> NumStr(n) \o <<".", " ">> \o text]>>

\* an aims section: the heading, the numbered items one per paragraph, and
\* (when trailing) the closing sentence that begins with "At the end"
AimsParas(items, trailing) ==
    <<P_HAims>> \o [n \in 1..Len(items) |-> ItemPara(n, items[n])]
        \o (IF trailing THEN <<<<[bold |-> FALSE, s |-> T_Trailing]>>>> ELSE <<>>)

\* pages that differ in the paragraphs of the description
ScanPages ==
    {Page(H1Present, MetaAll, DlRestr(<<D_Exam80>>), Desc(ps)) :
        ps \in SeqsUpTo(ParaPool, MaxParas)}

\* pages whose description is an aims section
AimsPages ==
    {Page(H1Present, MetaAll, DlRestr(<<D_Exam80>>), Desc(AimsParas(items, tr))) :
        items \in SeqsUpTo(ItemTexts, MaxItems), tr \in BOOLEAN}

\* pages that differ in the heading, the meta elements, the Restrictions pair
\* and the presence of the description
MetaPages ==
    {Page(h1, <<MetaOther>> \o MetaSel(S, 1), dl, desc) :
        h1 \in {H1Present, H1Absent},
        S \in SUBSET (1..Len(MetaAll)),
        dl \in {DlRestr(<<D_Exam80>>), DlNoLabel(<<D_Exam80>>),
                DlNoDd(<<D_Exam80>>), DlEmpty},
        desc \in {DescAbsent, Desc(<<P_HOutline, P_Plain>>)}}

\* pages that differ in the divs under Methods of assessment
AssessPages ==
    {Page(H1Present, MetaAll, DlRestr(divs), DescAbsent) :
        divs \in SeqsUpTo(DivPool, MaxDivs)}

FetchPages == ScanPages \cup AimsPages \cup MetaPages \cup AssessPages

\* the pages the server answers main's requests with
PageRich ==
    Page(H1Present, MetaAll, DlRestr(<<D_Exam80, D_Coursework>>),
         Desc(<<P_HOutline, P_Plain, P_HMethods, P_NoColon>>))
PagePoor == Page(H1Absent, <<>>, DlEmpty, DescAbsent)
MainPages == {PageRich, PagePoor}

-----------------------------------------------------------------------------
(* fetch_module, statement by statement, on one page.                      *)

MainIdle ==
    /\ slugs = <<>> /\ pc = "idle" /\ i = 0 /\ resp = "None" /\ rec = "None"
    /\ records = <<>> /\ trace = <<>> /\ jsonFile = <<>> /\ csvFile = <<>>

FetchInit ==
    /\ MainIdle
    /\ soup \in FetchPages
    /\ fslug = Slug1
    /\ fpc = "basic"
    /\ basic = "None" /\ assessment = "None" /\ dv = 0
    /\ state = "None" /\ outline = "None" /\ raw_aims = "None"
    /\ learning_methods = "None" /\ pk = 0
    /\ record = "None"

\* lines 44-70: title, meta fields, restrictions; assessment = {}
BasicMetadata ==
    /\ fpc = "basic"
    /\ basic' = Basic(fslug, soup)
    /\ assessment' = <<>>
    /\ fpc' = "assess"
    /\ UNCHANGED <<mvars, soup, fslug, dv, state, outline, raw_aims,
                   learning_methods, pk, record>>

\* lines 75-83: one turn of the loop over the divs
AssessDiv ==
    /\ fpc = "assess"
    /\ dv < Len(AssessDivs(soup))
    /\ assessment' = AssessStep(assessment, AssessDivs(soup)[dv + 1])
    /\ dv' = dv + 1
    /\ UNCHANGED <<mvars, soup, fslug, fpc, basic, state, outline, raw_aims,
                   learning_methods, pk, record>>

\* lines 84-94: the loop over the divs is over; the description's locals
AssessDone ==
    /\ fpc = "assess"
    /\ dv = Len(AssessDivs(soup))
    /\ state' = DescStart.state
    /\ outline' = DescStart.outline
    /\ raw_aims' = DescStart.raw_aims
    /\ learning_methods' = DescStart.learning_methods
    /\ fpc' = "desc"
    /\ UNCHANGED <<mvars, soup, fslug, basic, assessment, dv, pk, record>>

Locals ==
    [state |-> state, outline |-> outline, raw_aims |-> raw_aims,
     learning_methods |-> learning_methods]

\* lines 95-123: one turn of the loop over the paragraphs
Para(heading) ==
    /\ fpc = "desc"
    /\ pk < Len(Paras(soup))
    /\ (FindStrong(Paras(soup)[pk + 1]) # 0) = heading
    /\ LET st == ParaStep(Locals, Paras(soup)[pk + 1])
       IN  /\ state' = st.state
           /\ outline' = st.outline
           /\ raw_aims' = st.raw_aims
           /\ learning_methods' = st.learning_methods
    /\ pk' = pk + 1
    /\ UNCHANGED <<mvars, soup, fslug, fpc, basic, assessment, dv, record>>

\* lines 97-108: the paragraph holds a strong element
ParaHeading == Para(TRUE)

\* lines 110-123: the paragraph holds none
ParaCollect == Para(FALSE)

\* lines 125-158: the loop is over; post-processing, the record, return
Return ==
    /\ fpc = "desc"
    /\ pk = Len(Paras(soup))
    /\ record' = Assemble(fslug, basic, outline, raw_aims, learning_methods,
                          assessment)
    /\ fpc' = "done"
    /\ UNCHANGED <<mvars, soup, fslug, basic, assessment, dv, state, outline,
                   raw_aims, learning_methods, pk>>

FetchNext ==
    \/ BasicMetadata
    \/ AssessDiv
    \/ AssessDone
    \/ ParaHeading
    \/ ParaCollect
    \/ Return

SpecFetch == FetchInit /\ [][FetchNext]_vars

-----------------------------------------------------------------------------
(* main, statement by statement.  The server answers each request with a   *)
(* failure (requests.get or raise_for_status raises) or with a page.       *)

Ev(e, n) == [e |-> e, n |-> n]

\* json.dumps(v) / json.dump(v, f): the JSON text of v, named by what it encodes
JsonDumps(v) == [json |-> v]

\* pd.DataFrame(records).columns: the keys in the order they first appear
RECURSIVE Columns(_)
Columns(rs) ==
    IF rs = <<>> THEN <<>>
    ELSE LET before == Columns(SubSeq(rs, 1, Len(rs) - 1))
             new(k) == \A n \in 1..Len(before) : before[n] # k
         IN  before \o SelectSeq(DictKeys(rs[Len(rs)]), new)

\* lines 179-181: the cell of record r in column c; a missing value is empty
CsvCell(r, c) ==
    IF ~DictHas(r, c) THEN <<>>
    ELSE IF c = K_aims \/ c = K_learning_methods
    THEN JsonDumps(DictGet(r, c, <<>>))
    ELSE DictGet(r, c, <<>>)

\* lines 178-181: the header and one row per record
CsvDoc(rs) ==
    LET cols == Columns(rs)
    IN  [header |-> cols,
         rows   |-> [n \in 1..Len(rs) |->
                        [c \in 1..Len(cols) |-> CsvCell(rs[n], cols[c])]]]

FetchIdle ==
    /\ soup = "None" /\ fslug = "None" /\ fpc = "idle" /\ basic = "None"
    /\ assessment = "None" /\ dv = 0 /\ state = "None" /\ outline = "None"
    /\ raw_aims = "None" /\ learning_methods = "None" /\ pk = 0
    /\ record = "None"

\* lines 161-162, 185-196: main is called with at least one slug
Init ==
    /\ FetchIdle
    /\ slugs \in SeqsUpTo(Slugs, MaxSlugs) \ {<<>>}
    /\ pc = "loop"
    /\ i = 0
    /\ resp = "None"
    /\ rec = "None"
    /\ records = <<>>
    /\ trace = <<>>
    /\ jsonFile = <<>>
    /\ csvFile = <<>>

\* lines 163-164: the loop takes the next slug
LoopNext ==
    /\ pc = "loop"
    /\ i < Len(slugs)
    /\ i' = i + 1
    /\ pc' = "get"
    /\ UNCHANGED <<slugs, resp, rec, records, trace, jsonFile, csvFile, fvars>>

\* a change of GetFail: the request is sent again after the failure
GetFail_Retry ==
    /\ pc = "get"
    /\ trace' = trace \o <<Ev("get", i), Ev("get", i), Ev("error", i)>>
    /\ pc' = "loop"
    /\ UNCHANGED <<slugs, i, resp, rec, records, jsonFile, csvFile, fvars>>

\* lines 39-41 and 169-170: the request fails, main prints the error
GetFail ==
    /\ pc = "get"
    /\ trace' = trace \o <<Ev("get", i), Ev("error", i)>>
    /\ pc' = "loop"
    /\ UNCHANGED <<slugs, i, resp, rec, records, jsonFile, csvFile, fvars>>

\* lines 39-41: the request succeeds
GetOk ==
    /\ pc = "get"
    /\ \E page \in MainPages : resp' = page
    /\ trace' = Append(trace, Ev("get", i))
    /\ pc' = "parse"
    /\ UNCHANGED <<slugs, i, rec, records, jsonFile, csvFile, fvars>>

\* lines 42-158: the page is parsed, fetch_module sleeps and returns
ParseSleep ==
    /\ pc = "parse"
    /\ rec' = FetchModule(slugs[i], resp)
    /\ resp' = "None"
    /\ trace' = Append(trace, Ev("sleep", i))
    /\ pc' = "append"
    /\ UNCHANGED <<slugs, i, records, jsonFile, csvFile, fvars>>

\* a change of AppendRecord: records.insert(0, rec)
AppendRecord_AtFront ==
    /\ pc = "append"
    /\ records' = <<rec>> \o records
    /\ rec' = "None"
    /\ trace' = Append(trace, Ev("ok", i))
    /\ pc' = "loop"
    /\ UNCHANGED <<slugs, i, resp, jsonFile, csvFile, fvars>>

\* lines 167-168
AppendRecord ==
    /\ pc = "append"
    /\ records' = Append(records, rec)
    /\ rec' = "None"
    /\ trace' = Append(trace, Ev("ok", i))
    /\ pc' = "loop"
    /\ UNCHANGED <<slugs, i, resp, jsonFile, csvFile, fvars>>

\* lines 172-175: the loop is over, the JSON file is written
WriteJson ==
    /\ pc = "loop"
    /\ i = Len(slugs)
    /\ jsonFile' = Append(jsonFile, JsonDumps(records))
    /\ trace' = Append(trace, Ev("json", i))
    /\ pc' = "csv"
    /\ UNCHANGED <<slugs, i, resp, rec, records, csvFile, fvars>>

\* lines 178-182: the frame has the columns aims and learning_methods
WriteCsv ==
    /\ pc = "csv"
    /\ records # <<>>
    /\ csvFile' = Append(csvFile, CsvDoc(records))
    /\ trace' = Append(trace, Ev("csv", i))
    /\ pc' = "done"
    /\ UNCHANGED <<slugs, i, resp, rec, records, jsonFile, fvars>>

\* lines 178-179: the frame of no records has no column aims: df["aims"]
\* raises KeyError, which nothing catches
CsvKeyError ==
    /\ pc = "csv"
    /\ records = <<>>
    /\ pc' = "aborted"
    /\ UNCHANGED <<slugs, i, resp, rec, records, trace, jsonFile, csvFile, fvars>>

Next ==
    \/ LoopNext
    \/ GetFail
    \/ GetOk
    \/ ParseSleep
    \/ AppendRecord
    \/ WriteJson
    \/ WriteCsv
    \/ CsvKeyError

Spec == Init /\ [][Next]_vars

\* fetch_module as one step and fetch_module statement by statement agree
FetchAgrees == fpc = "done" => record = FetchModule(fslug, soup)

-----------------------------------------------------------------------------
(* Claims about main.                                                      *)

\* the slugs of the records, in the order of the list
RecordSlugs == [n \in 1..Len(records) |-> DictGet(records[n], K_slug, <<>>)]

\* the positions of the input whose turn of the loop has ended
Taken == {n \in 1..i : n < i \/ pc \in {"loop", "csv", "done", "aborted"}}

Has(e, n) == \E p \in 1..Len(trace) : trace[p] = Ev(e, n)
Count(e, n) == Cardinality({p \in 1..Len(trace) : trace[p] = Ev(e, n)})

\* the positions whose fetch raised, and those whose fetch returned a record
Failed == {n \in Taken : Has("error", n)}
Succeeded == Taken \ Failed

\* xs at the positions of S, in order
RECURSIVE Pick(_, _, _)
Pick(xs, S, n) ==
    IF n > Len(xs) THEN <<>>
    ELSE (IF n \in S THEN <<xs[n]>> ELSE <<>>) \o Pick(xs, S, n + 1)

MainEnded == pc \in {"done", "aborted"}

\* C1: whatever fetches fail, up to all of them, main does not abort: it takes
\* every identifier and then writes the JSON file and the CSV file, each with
\* one entry (one data row) per identifier whose fetch succeeded and none for
\* one whose fetch failed.
C1_RunsToCompletion ==
    /\ pc # "aborted"
    /\ MainEnded =>
        /\ i = Len(slugs)
        /\ Len(jsonFile) = 1
        /\ Len(csvFile) = 1
        /\ jsonFile[1].json = records
        /\ Len(csvFile[1].rows) = Cardinality(Succeeded)
        /\ RecordSlugs = Pick(slugs, Succeeded, 1)

\* C2 as claimed: the records hold at most one record per identifier, and
\* their slugs are a subsequence of the input in input order.
C2_OneRecordPerIdentifier ==
    /\ \A n, m \in 1..Len(records) : n # m => RecordSlugs[n] # RecordSlugs[m]
    /\ \E S \in SUBSET (1..i) : RecordSlugs = Pick(slugs, S, 1)

\* C2 as amended: the records hold one record per input position whose fetch
\* succeeded and none for a position whose fetch failed, in input order; an
\* identifier that occurs k times in the input has at most k records.
C2_OneRecordPerPosition ==
    /\ RecordSlugs = Pick(slugs, {n \in Succeeded : Has("ok", n)}, 1)
    /\ \A n \in Failed : ~Has("ok", n)
    /\ \A s \in Slugs :
          Cardinality({n \in 1..Len(records) : RecordSlugs[n] = s})
              <= Cardinality({n \in 1..Len(slugs) : slugs[n] = s})

\* a run that ended with two records of one identifier and a failed fetch
C2_Witness ==
    /\ pc = "done"
    /\ Failed # {}
    /\ \E n, m \in 1..Len(records) : n # m /\ RecordSlugs[n] = RecordSlugs[m]

\* C6: no file is written before the loop over all identifiers has ended;
\* after it the JSON file and then the CSV file are each written exactly once,
\* with the complete list of records, which does not change in between.
C6_BothFilesOnceAfterLoop ==
    /\ (jsonFile # <<>> \/ csvFile # <<>>) =>
          i = Len(slugs) /\ pc \in {"csv", "done", "aborted"}
    /\ csvFile # <<>> => jsonFile # <<>>
    /\ Len(jsonFile) <= 1 /\ Len(csvFile) <= 1
    /\ jsonFile # <<>> => jsonFile[1] = JsonDumps(records)
    /\ MainEnded => jsonFile = <<JsonDumps(records)>> /\ csvFile = <<CsvDoc(records)>>

\* C9: each identifier is requested once, in input order, and never again
\* after a failure; the next request starts only when the one before is
\* recorded or skipped; fetch_module sleeps once after each fetch that
\* succeeded, before the next request, and not after one that failed.
C9_OneRequestEach ==
    /\ \A n \in Taken : Count("get", n) = 1
    /\ \A n \in Succeeded : Count("sleep", n) = 1 /\ Count("ok", n) = 1
    /\ \A n \in Failed : Count("sleep", n) = 0 /\ Count("ok", n) = 0
    /\ \A p \in 1..Len(trace) :
          LET ev   == trace[p]
              gets == Cardinality({q \in 1..p : trace[q].e = "get"})
          IN  /\ ev.e = "get" =>
                    /\ ev.n = gets
                    /\ p > 1 => trace[p - 1] \in {Ev("error", gets - 1), Ev("ok", gets - 1)}
              /\ ev.e \in {"error", "sleep"} => p > 1 /\ trace[p - 1] = Ev("get", ev.n)
              /\ ev.e = "ok" => p > 1 /\ trace[p - 1] = Ev("sleep", ev.n)
              /\ ev.e = "json" => \A q \in 1..p : trace[q].e # "csv"

\* a run that ended after a failed fetch followed by a successful one
C9_Witness ==
    /\ pc = "done"
    /\ \E n \in Failed : n + 1 \in Succeeded

-----------------------------------------------------------------------------
(* Claims about fetch_module.                                              *)

Field(k) == DictGet(record, k, None)

Max(S) == CHOOSE n \in S : \A m \in S : m <= n

FixedKeys ==
    <<K_slug, K_url, K_title, K_faculty, K_department, K_credit_value, K_level,
      K_teaching_term, K_subject, K_restrictions, K_outline, K_aims,
      K_learning_methods>>

StringKeys ==
    {K_slug, K_url, K_title, K_faculty, K_department, K_credit_value, K_level,
     K_teaching_term, K_subject, K_restrictions, K_outline}

MetaFields ==
    {<<M_faculty, K_faculty>>, <<M_department, K_department>>,
     <<M_credit, K_credit_value>>, <<M_level, K_level>>,
     <<M_term, K_teaching_term>>, <<M_subject, K_subject>>}

\* the meta elements of the page named name
MetaNamed(name) == {n \in 1..Len(soup.meta) : soup.meta[n].name = name}

HasRestrictionsLabel ==
    \E n \in 1..Len(soup.dl) :
        soup.dl[n].tag = "dt" /\ GetText(soup.dl[n].strings, <<>>) = S_Restrictions

\* C3 as claimed: numbered items, one per line, followed by a line that begins
\* with "At the end" give exactly the items' texts as the aims list, and the
\* closing sentence is in no element of it.
C3_TrailingSentenceDropped ==
    fpc = "done" =>
        \A items \in SeqsUpTo(ItemTexts, MaxItems) :
            soup.desc.ps = AimsParas(items, TRUE) => Field(K_aims) = items

\* C3 as amended: the aims list holds the items' texts in order, except that
\* its last element is the last item's text, a newline and the closing
\* sentence: the sentence is not dropped, since it is no fragment of its own.
\* It is dropped only when no numbered item precedes it.
C3_TrailingSentenceKept ==
    fpc = "done" =>
        \A items \in SeqsUpTo(ItemTexts, MaxItems) :
            soup.desc.ps = AimsParas(items, TRUE) =>
                Field(K_aims) =
                    IF items = <<>> THEN <<>>
                    ELSE SubSeq(items, 1, Len(items) - 1)
                             \o <<items[Len(items)] \o <<"\n">> \o T_Trailing>>

\* fetch_module returned for the aims "1. Understand X." "2. Apply Y."
\* "At the end, students will know Z."
C3_Witness ==
    /\ fpc = "done"
    /\ soup.desc.ps = AimsParas(<<T_UnderstandX, T_ApplyY>>, TRUE)

\* the text of block j under Methods of assessment, and the label, weight and
\* key the claim gives it
BlockText(j) == GetText(AssessDivs(soup)[j], <<" ">>)
BlockLabel(j) ==
    IF Find(BlockText(j), "%") = 0 THEN BlockText(j)
    ELSE Strip(SubSeq(BlockText(j), Find(BlockText(j), "%") + 1, Len(BlockText(j))))
BlockWeight(j) ==
    IF Find(BlockText(j), "%") = 0 THEN <<>>
    ELSE Strip(SubSeq(BlockText(j), 1, Find(BlockText(j), "%") - 1)) \o <<"%">>
BlockKey(j) == S_assessment_ \o Replace(BlockLabel(j), " ", "_")
Blocks == 1..Len(AssessDivs(soup))

\* the keys of the record after the fixed ones
AssessmentKeys == SubSeq(DictKeys(record), Len(FixedKeys) + 1, Len(record))

\* C4 as claimed: every block is recorded as label -> weight, split at the
\* first "%" (no "%": the whole text, with weight ""), and appears in the
\* record under assessment_<label, spaces as underscores>, in order of
\* discovery.
C4_EveryBlockRecorded ==
    fpc = "done" =>
        /\ \A j \in Blocks : Field(BlockKey(j)) = BlockWeight(j)
        /\ AssessmentKeys = [j \in Blocks |-> BlockKey(j)]

\* C4 as amended: every block's key is in the record, the keys once each in
\* the order in which they are first discovered; a key that one block alone
\* yields holds that block's weight; blocks that yield the same key share one
\* entry, which holds the weight of one of them (a later block overwrites).
C4_BlocksRecordedByKey ==
    fpc = "done" =>
        /\ \A j \in Blocks :
              /\ Field(BlockKey(j)) \in {BlockWeight(m) : m \in {m \in Blocks : BlockKey(m) = BlockKey(j)}}
              /\ (\A m \in Blocks : m # j => BlockKey(m) # BlockKey(j)) =>
                    Field(BlockKey(j)) = BlockWeight(j)
        /\ AssessmentKeys =
              Pick([j \in Blocks |-> BlockKey(j)],
                   {j \in Blocks : \A m \in 1..(j - 1) : BlockKey(m) # BlockKey(j)}, 1)

\* fetch_module returned for the blocks "80% Exam" and "Coursework"
C4_Witness ==
    /\ fpc = "done"
    /\ AssessDivs(soup) = <<D_Exam80, D_Coursework>>
    /\ AssessmentKeys = <<S_assessment_ \o <<"E", "x", "a", "m">>,
                          S_assessment_ \o D_Coursework[1]>>

\* C5: every record holds the thirteen fixed keys, none of them null: a meta
\* element missing from the page gives "" for its field, a page without the
\* label Restrictions gives restrictions "", a page without description
\* sections gives empty outline, aims and learning_methods; every other key
\* begins with assessment_ and replaces no fixed key.
C5_FixedKeysNeverNull ==
    fpc = "done" =>
        /\ \A n \in 1..Len(FixedKeys) :
              Cardinality({m \in 1..Len(record) : record[m].k = FixedKeys[n]}) = 1
        /\ \A m \in 1..Len(record) :
              (\A n \in 1..Len(FixedKeys) : record[m].k # FixedKeys[n]) =>
                  StartsWith(record[m].k, S_assessment_)
        /\ \A k \in StringKeys : Field(k) # None
        /\ Field(K_slug) = fslug
        /\ Field(K_url) = S_BASE_URL \o fslug
        /\ \A f \in MetaFields :
              Field(f[2]) = IF MetaNamed(f[1]) = {} THEN <<>>
                            ELSE soup.meta[Max(MetaNamed(f[1]))].content
        /\ ~HasRestrictionsLabel => Field(K_restrictions) = <<>>
        /\ Paras(soup) = <<>> =>
              /\ Field(K_outline) = <<>>
              /\ Len(Field(K_aims)) = 0
              /\ Len(Field(K_learning_methods)) = 0

\* fetch_module returned for a page without the faculty meta element, without
\* the label Restrictions and without a description
C5_Witness ==
    /\ fpc = "done"
    /\ MetaNamed(M_faculty) = {}
    /\ MetaNamed(M_level) # {}
    /\ ~HasRestrictionsLabel
    /\ ~soup.desc.present
    /\ Len(record) > Len(FixedKeys)

-----------------------------------------------------------------------------
(* Claims about the loop over the paragraphs of the description.           *)

\* the loop takes a paragraph in this step
TakesPara == fpc = "desc" /\ pk' = pk + 1

\* a paragraph the loop reads as a heading: it holds a strong element
IsHeadingPara(p) == \E n \in 1..Len(p) : p[n].bold

\* a paragraph that consists solely of bold text: a heading paragraph
SolelyBold(p) == \A n \in 1..Len(p) : p[n].bold

\* the section a heading text selects
Selected(h) ==
    CASE h = S_ModuleOutline -> "outline"
      [] h = S_ModuleAims -> "aims"
      [] h # S_ModuleOutline /\ h # S_ModuleAims
            /\ Len(h) >= Len(S_TeachingAndLearningMethods)
            /\ SubSeq(h, 1, Len(S_TeachingAndLearningMethods))
                   = S_TeachingAndLearningMethods -> "methods"
      [] OTHER -> "none"

\* the heading paragraphs among the first n
HeadingsIn(n) == {m \in 1..n : SolelyBold(Paras(soup)[m])}

\* the state that the most recent heading paragraph among the first n selects
SelectedAfter(n) ==
    IF HeadingsIn(n) = {} THEN "none"
    ELSE Selected(ParaText(Paras(soup)[Max(HeadingsIn(n))]))

\* C7: the section state starts as none and after any prefix of the paragraphs
\* is the state that the most recent heading paragraph selects ("Module
\* Outline:" outline, "Module Aims:" aims, a text that starts with "Teaching
\* and Learning Methods" methods, any other bold heading none); a heading
\* paragraph adds nothing to outline, raw_aims or learning_methods.
C7_StateFollowsHeadings ==
    [][/\ fpc' = "desc" => state' = SelectedAfter(pk')
       /\ TakesPara /\ SolelyBold(Paras(soup)[pk + 1]) =>
             UNCHANGED <<outline, raw_aims, learning_methods>>]_vars

\* The same with every paragraph that holds a strong element counted as a
\* heading, its heading text that of its first strong element: this is what
\* the loop does.
HeadingsAsDetected ==
    [][/\ fpc' = "desc" =>
             LET hs == {m \in 1..pk' : IsHeadingPara(Paras(soup)[m])}
             IN  state' = IF hs = {} THEN "none"
                          ELSE Selected(StrongText(Paras(soup)[Max(hs)]))
       /\ TakesPara /\ IsHeadingPara(Paras(soup)[pk + 1]) =>
             UNCHANGED <<outline, raw_aims, learning_methods>>]_vars

\* C8: a paragraph that does not consist solely of bold heading text (it may
\* hold some bold text beside other text) leaves the section state as it is
\* and adds its trimmed text to the accumulator of the current section and to
\* no other; in the state none it adds to no accumulator.
C8_OtherParagraphsKeepState ==
    [][TakesPara /\ ~SolelyBold(Paras(soup)[pk + 1]) =>
          LET txt == ParaText(Paras(soup)[pk + 1])
          IN  /\ state' = state
              /\ state = "none" => UNCHANGED <<outline, raw_aims, learning_methods>>
              /\ state = "outline" =>
                    /\ outline' = Append(outline, txt)
                    /\ UNCHANGED <<raw_aims, learning_methods>>
              /\ state = "aims" =>
                    /\ raw_aims' = raw_aims \o txt \o <<"\n">>
                    /\ UNCHANGED <<outline, learning_methods>>
              /\ state = "methods" =>
                    /\ UNCHANGED <<outline, raw_aims>>
                    /\ \E n \in 1..Len(learning_methods') :
                          LET e  == learning_methods'[n]
                              at == Find(txt, ":")
                          IN  IF at = 0
                              THEN /\ e.k = S_notes
                                   /\ Len(e.v) >= Len(txt)
                                   /\ SubSeq(e.v, Len(e.v) - Len(txt) + 1, Len(e.v)) = txt
                              ELSE /\ e.k = Strip(SubSeq(txt, 1, at - 1))
                                   /\ e.v = Strip(SubSeq(txt, at + 1, Len(txt)))]_vars

\* the paragraphs among the first n that the loop collected in the methods
\* state, with a colon (labelled) and without (unlabelled)
InMethods(n) ==
    {m \in 1..n :
        /\ FindStrong(Paras(soup)[m]) = 0
        /\ ParaAll(DescStart, SubSeq(Paras(soup), 1, m - 1)).state = "methods"}
Labelled(n) == {m \in InMethods(n) : Find(ParaText(Paras(soup)[m]), ":") # 0}
Unlabelled(n) == InMethods(n) \ Labelled(n)
TextAt(m) == ParaText(Paras(soup)[m])

\* C10: in the methods state a paragraph with a colon sets learning_methods
\* [text before the first colon, trimmed] to the trimmed text after it; one
\* without a colon is appended, joined by a space, to the entry notes and
\* touches no other key; so notes is exactly the unlabelled fragments joined
\* by single spaces.
C10_NotesSpaceJoined ==
    fpc \in {"desc", "done"} =>
        /\ \A m \in Labelled(pk) :
              LET at == Find(TextAt(m), ":")
                  key == Strip(SubSeq(TextAt(m), 1, at - 1))
              IN  (\A q \in Labelled(pk) : q <= m) =>
                      DictGet(learning_methods, key, None)
                          = Strip(SubSeq(TextAt(m), at + 1, Len(TextAt(m))))
        /\ Unlabelled(pk) # {} =>
              DictGet(learning_methods, S_notes, None)
                  = Join(<<" ">>, Pick([m \in 1..pk |-> TextAt(m)], Unlabelled(pk), 1))
        /\ \A n \in 1..Len(learning_methods) :
              \/ learning_methods[n].k = S_notes /\ Unlabelled(pk) # {}
              \/ \E m \in Labelled(pk) :
                    learning_methods[n].k
                        = Strip(SubSeq(TextAt(m), 1, Find(TextAt(m), ":") - 1))
====
